---- MODULE Spec2Model ----
(***************************************************************************)
(* A model of generate_calendar.py: the HolidayAPI client and the Calendar *)
(* builder (construction, holiday resolution, row generation, table        *)
(* assembly).  Dates are proleptic Gregorian ordinals, as Python's         *)
(* datetime keeps them; date strings are sequences of characters.          *)
(***************************************************************************)
EXTENDS Integers, Sequences, FiniteSets, TLC

(***************************************************************************)
(* Bounds of the model.                                                    *)
(***************************************************************************)
\* start_date ranges over FirstStart .. FirstStart + MaxStartOffset
MaxStartOffset == 2
\* num_days ranges over 0 .. MaxDays
MaxDays == 3
\* generate() is called at most MaxCalls times on one builder
MaxCalls == 2
\* a date's entry list in a service response holds 1 .. MaxEntries entries
MaxEntries == 2

(***************************************************************************)
(* Python values.                                                          *)
(***************************************************************************)
\* None, as returned by dict.get() for a missing key and by os.environ.get()
None == "None"
\* np.nan, the absent cell of a column; a present cell v is <<v>>
NaN == <<>>
Cell(v) == <<v>>

(***************************************************************************)
(* datetime: ordinals, year/month/day, ISO calendar, formatting, parsing.  *)
(***************************************************************************)
_is_leap(year) == year % 4 = 0 /\ (year % 100 # 0 \/ year % 400 = 0)

_days_before_year(year) ==
    LET y == year - 1
    IN  y * 365 + (y \div 4) - (y \div 100) + (y \div 400)

_DAYS_IN_MONTH == <<31, 28, 31, 30, 31, 30, 31, 31, 30, 31, 30, 31>>

_days_in_month(year, month) ==
    IF month = 2 /\ _is_leap(year) THEN 29 ELSE _DAYS_IN_MONTH[month]

RECURSIVE _days_before_month(_, _)
_days_before_month(year, month) ==
    IF month = 1 THEN 0
    ELSE _days_before_month(year, month - 1) + _days_in_month(year, month - 1)

_ymd2ord(year, month, day) ==
    _days_before_year(year) + _days_before_month(year, month) + day

\* ordinal -> <<year, month, day>>, by the 400/100/4/1-year cycles
_ord2ymd(ordinal) ==
    LET n0   == ordinal - 1
        n400 == n0 \div 146097
        r400 == n0 % 146097
        n100 == r400 \div 36524
        r100 == r400 % 36524
        n4   == r100 \div 1461
        r4   == r100 % 1461
        n1   == r4 \div 365
        n    == r4 % 365
        year == n400 * 400 + 1 + n100 * 100 + n4 * 4 + n1
        leapyear == n1 = 3 /\ (n4 # 24 \/ n100 = 3)
        month0 == (n + 50) \div 32
        leapAdj(m) == IF m > 2 /\ leapyear THEN 1 ELSE 0
        preceding0 == _days_before_month(2001, month0) + leapAdj(month0)
        month == IF preceding0 > n THEN month0 - 1 ELSE month0
        preceding ==
            IF preceding0 > n
            THEN preceding0 - (_DAYS_IN_MONTH[month]
                               + (IF month = 2 /\ leapyear THEN 1 ELSE 0))
            ELSE preceding0
    IN  IF n1 = 4 \/ n100 = 4
        THEN <<year - 1, 12, 31>>
        ELSE <<year, month, n - preceding + 1>>

YearOf(ordinal) == _ord2ymd(ordinal)[1]
MonthOf(ordinal) == _ord2ymd(ordinal)[2]
DayOf(ordinal) == _ord2ymd(ordinal)[3]

\* ordinal of the Monday of ISO week 1 of a year
_isoweek1monday(year) ==
    LET firstday == _ymd2ord(year, 1, 1)
        firstweekday == (firstday + 6) % 7
        week1monday == firstday - firstweekday
    IN  IF firstweekday > 3 THEN week1monday + 7 ELSE week1monday

\* date.isocalendar(): <<ISO year, ISO week number, ISO weekday>>
isocalendar(ordinal) ==
    LET year == YearOf(ordinal)
        w1   == _isoweek1monday(year)
        week == (ordinal - w1) \div 7
        day  == (ordinal - w1) % 7
    IN  IF week < 0
        THEN LET w0 == _isoweek1monday(year - 1)
             IN  <<year - 1, ((ordinal - w0) \div 7) + 1, ((ordinal - w0) % 7) + 1>>
        ELSE IF week >= 52 /\ ordinal >= _isoweek1monday(year + 1)
        THEN <<year + 1, 1, day + 1>>
        ELSE <<year, week + 1, day + 1>>

Digits == <<"0", "1", "2", "3", "4", "5", "6", "7", "8", "9">>

\* "%0<width>d" % n
RECURSIVE ZeroPad(_, _)
ZeroPad(n, width) ==
    IF width = 0 THEN <<>>
    ELSE Append(ZeroPad(n \div 10, width - 1), Digits[(n % 10) + 1])

\* '%s' % date.date(): the ISO form YYYY-MM-DD
isoformat(ordinal) ==
    ZeroPad(YearOf(ordinal), 4) \o <<"-">> \o ZeroPad(MonthOf(ordinal), 2)
        \o <<"-">> \o ZeroPad(DayOf(ordinal), 2)

\* a variant that does not pad month and day: '%Y-%-m-%-d'
strftimeUnpadded(ordinal) ==
    LET ymd == _ord2ymd(ordinal)
    IN  ZeroPad(ymd[1], 4) \o <<"-">> \o ZeroPad(ymd[2], IF ymd[2] < 10 THEN 1 ELSE 2)
            \o <<"-">> \o ZeroPad(ymd[3], IF ymd[3] < 10 THEN 1 ELSE 2)

\* datetime.strftime(d, '%Y-%m-%d')
strftime(ordinal) ==
    LET ymd == _ord2ymd(ordinal)
    IN  ZeroPad(ymd[1], 4) \o <<"-">> \o ZeroPad(ymd[2], 2)
            \o <<"-">> \o ZeroPad(ymd[3], 2)

DigitValue(c) == (CHOOSE i \in 1..10 : Digits[i] = c) - 1

RECURSIVE ParseInt(_)
ParseInt(s) ==
    IF s = <<>> THEN 0
    ELSE ParseInt(SubSeq(s, 1, Len(s) - 1)) * 10 + DigitValue(s[Len(s)])

\* datetime.strptime(s, '%Y-%m-%d') of a well-formed string
strptime(s) ==
    _ymd2ord(ParseInt(SubSeq(s, 1, 4)), ParseInt(SubSeq(s, 6, 7)),
             ParseInt(SubSeq(s, 9, 10)))

(***************************************************************************)
(* Inputs: the construction arguments and the holiday service's answers.   *)
(***************************************************************************)
\* the earliest start date of the model: two days before a year boundary
FirstStart == _ymd2ord(2020, 12, 30)

StartStrings == {isoformat(FirstStart + i) : i \in 0..MaxStartOffset}
EndStrings(start_string) == {isoformat(strptime(start_string) + n) : n \in 0..MaxDays}

\* a holiday entry of the service: name, public flag, observed date string
HolidayNames == {"New Year's Day", "Other"}
ObservedDates == {isoformat(_ymd2ord(2021, 1, 1)), isoformat(_ymd2ord(2021, 1, 2))}
Entries == [name : HolidayNames, public : BOOLEAN, observed : ObservedDates]

\* the nominal date the service files a year's entry list under
NominalDate(year) == isoformat(_ymd2ord(year, 1, 1))

\* the non-empty entry lists of at most n entries
EntryLists(n) == UNION {[1..k -> Entries] : k \in 1..n}

\* a year's answer: the dict's items in order, <<date string, entry list>>;
\* here no date or one date
ResponsesOf(year, lists) == {<<>>} \cup {<<<<NominalDate(year), l>>>> : l \in lists}

\* the two-entry list of the spec's scenario: one public, one non-public
ScenarioList ==
    <<[name |-> "Other", public |-> FALSE, observed |-> isoformat(_ymd2ord(2021, 1, 1))],
      [name |-> "New Year's Day", public |-> TRUE, observed |-> isoformat(_ymd2ord(2021, 1, 1))]>>

\* the answers the service gives in Spec: single-entry lists and the scenario
ServiceResponses(year) == ResponsesOf(year, EntryLists(1) \cup {ScenarioList})

\* the answers of SpecMerge: every entry list of at most MaxEntries entries
RichResponses(year) == ResponsesOf(year, EntryLists(MaxEntries))

\* the ways a get_holidays call fails: an error payload, a failing HTTP status
FailureKinds == {"ServiceError", "HTTPError"}

(***************************************************************************)
(* class Calendar: constants and pure helpers.                             *)
(***************************************************************************)
WEEKDAY_MAP ==
    <<"Monday", "Tuesday", "Wednesday", "Thursday", "Friday", "Saturday", "Sunday">>

CALENDAR_KEYS ==
    <<"date", "year", "month", "day", "weekday", "weekday_name", "weeknumber",
      "is_weekend", "is_business_day", "is_holiday", "holiday_name">>

KeySet == {CALENDAR_KEYS[i] : i \in 1..Len(CALENDAR_KEYS)}

_gen_calendar_data_template == [k \in KeySet |-> <<>>]

\* a variant that ignores the reset argument
ResetDataIgnored(reset, data) == data

\* generate()'s first statement: the buffer is replaced when reset is set
ResetData(reset, data) == IF reset THEN _gen_calendar_data_template ELSE data

\* a variant that yields one day too many: range(self.num_days + 1)
_gen_datesInclusive(n) == 0..n

\* range(self.num_days): the day numbers _gen_dates yields, in order
_gen_dates(n) == 0..(n - 1)

\* a variant that stops before the end year: range(start.year, end.year)
YearsListExclusive(start, end) ==
    [i \in 1..(IF YearOf(end) > YearOf(start) THEN YearOf(end) - YearOf(start) ELSE 0)
        |-> YearOf(start) + i - 1]

\* range(self.start_date.year, self.end_date.year + 1), as a list
YearsList(start, end) ==
    [i \in 1..(IF YearOf(end) >= YearOf(start) THEN YearOf(end) - YearOf(start) + 1 ELSE 0)
        |-> YearOf(start) + i - 1]

\* a variant that rejects the empty key instead of the missing one
HolidayAPI_raisesOnEmpty(api_key) == api_key = ""

\* HolidayAPI.__init__ raises when the key is None
HolidayAPI_raises(api_key) == api_key = None

\* dict.get(key) and dict[key] = value
Get(dict, key) == IF key \in DOMAIN dict THEN dict[key] ELSE None
Put(dict, key, value) ==
    [x \in DOMAIN dict \cup {key} |-> IF x = key THEN value ELSE dict[x]]

EmptyDict == [x \in {} |-> None]

\* a variant that indexes the first entry of a list whether public or not
MergeEntryListAnyFirst(index, holiday_data) ==
    LET public_holidays == SelectSeq(holiday_data, LAMBDA day : day.public)
        index1 ==
            IF Len(holiday_data) > 1 /\ Len(public_holidays) > 0
            THEN Put(index, public_holidays[1].observed, public_holidays[1].name)
            ELSE index
        first == holiday_data[1]
    IN  Put(index1, first.observed, first.name)

\* the body of the loop over a response's items: one date's entry list
MergeEntryList(index, holiday_data) ==
    LET public_holidays == SelectSeq(holiday_data, LAMBDA day : day.public)
        index1 ==
            IF Len(holiday_data) > 1 /\ Len(public_holidays) > 0
            THEN Put(index, public_holidays[1].observed, public_holidays[1].name)
            ELSE index
        first == holiday_data[1]
    IN  IF first.public
        THEN Put(index1, first.observed, first.name)
        ELSE index1

RECURSIVE MergeResponse(_, _)
MergeResponse(index, response) ==
    IF response = <<>> THEN index
    ELSE MergeResponse(MergeEntryList(index, Head(response)[2]), Tail(response))

\* self.holidays as built from the list of the years' responses
RECURSIVE BuildIndex(_, _)
BuildIndex(index, responses) ==
    IF responses = <<>> THEN index
    ELSE BuildIndex(MergeResponse(index, Head(responses)), Tail(responses))

_is_weekend(weekday_index) == weekday_index \in {6, 7}

\* <<flag, name cell>>
_is_holiday(index, date) ==
    LET holiday == Get(index, strftime(date))
    IN  IF holiday = None THEN <<FALSE, NaN>> ELSE <<TRUE, Cell(holiday)>>

\* a variant that never consults the holidays
_is_business_dayNoHolidays(include, index, weekday_index, date) ==
    ~_is_weekend(weekday_index)

_is_business_day(include, index, weekday_index, date) ==
    IF include = TRUE
    THEN ~_is_weekend(weekday_index) /\ ~_is_holiday(index, date)[1]
    ELSE ~_is_weekend(weekday_index)

\* the values one iteration of generate()'s loop appends, by column
RowOf(include, index, date) ==
    LET iso == isocalendar(date)
        hol == IF include THEN _is_holiday(index, date) ELSE <<FALSE, NaN>>
    IN  [date            |-> isoformat(date),
         year            |-> iso[1],
         month           |-> MonthOf(date),
         day             |-> DayOf(date),
         weekday         |-> iso[3],
         weekday_name    |-> WEEKDAY_MAP[iso[3]],
         weeknumber      |-> iso[2],
         is_weekend      |-> _is_weekend(iso[3]),
         is_holiday      |-> IF include THEN Cell(hol[1]) ELSE NaN,
         holiday_name    |-> hol[2],
         is_business_day |-> _is_business_day(include, index, iso[3], date)]

\* a variant that appends nothing to holiday_name when the name is absent
AppendRowSkipAbsentName(data, row) ==
    [k \in DOMAIN data |->
        IF k = "holiday_name" /\ row[k] = NaN THEN data[k] ELSE Append(data[k], row[k])]

AppendRow(data, row) == [k \in DOMAIN data |-> Append(data[k], row[k])]

\* pd.DataFrame(data)[CALENDAR_KEYS]: the rows of equally long columns
EqualLengths(data) == \A j, k \in DOMAIN data : Len(data[j]) = Len(data[k])
DataFrame(data) ==
    [i \in 1..Len(data[CALENDAR_KEYS[1]]) |->
        [k \in KeySet |-> data[k][i]]]

\* to_csv(dest, index=False): the header line, then one line per row
to_csv(table) ==
    <<CALENDAR_KEYS>> \o
    [i \in 1..Len(table) |-> [j \in 1..Len(CALENDAR_KEYS) |-> table[i][CALENDAR_KEYS[j]]]]

(***************************************************************************)
(* State.                                                                  *)
(***************************************************************************)
VARIABLES
    start_date,        \* self.start_date (an ordinal)
    end_date,          \* self.end_date
    num_days,          \* self.num_days
    include_holidays,  \* self.include_holidays
    holiday_api_key,   \* self.holiday_api_key (None: no key was supplied)
    CALENDAR_DATA,     \* self.CALENDAR_DATA: column name -> list of cells
    holidays,          \* self.holidays: observed date string -> name
    pc,                \* where generate() stands: idle, fetch, merge, rows
    reset_arg,         \* generate()'s reset argument
    dest_arg,          \* generate()'s dest argument (None: return the table)
    api_holidays,      \* the list `holidays` of _get_holidays_from_api
    day_num,           \* the next day number of the loop over _gen_dates()
    requests,          \* the years requested from the service by this call
    calls,             \* the number of generate() calls started
    entry_data,        \* CALENDAR_DATA as it was when this call was entered
    outcome,           \* how the last call ended: none, table, csv, error
    raised,            \* the exception the last call ended with, or None
    returned,          \* the table the last call returned
    exported           \* the lines the last call wrote to dest

builder == <<start_date, end_date, num_days, include_holidays, holiday_api_key>>
call == <<reset_arg, dest_arg, calls, entry_data>>
result == <<outcome, raised, returned, exported>>
vars == <<builder, CALENDAR_DATA, holidays, pc, call, api_holidays, day_num,
          requests, result>>

Years == YearsList(start_date, end_date)

(***************************************************************************)
(* Calendar.__init__                                                       *)
(***************************************************************************)
Construct(start_date_string, end_date_string, include, api_key) ==
    /\ start_date = strptime(start_date_string)
    /\ end_date = strptime(end_date_string)
    /\ num_days = strptime(end_date_string) - strptime(start_date_string)
    /\ include_holidays = include
    /\ CALENDAR_DATA = _gen_calendar_data_template
    /\ holiday_api_key = api_key

\* nothing has been called yet
NotCalled ==
    /\ holidays = EmptyDict
    /\ pc = "idle"
    /\ reset_arg = FALSE
    /\ dest_arg = None
    /\ api_holidays = <<>>
    /\ day_num = 0
    /\ requests = <<>>
    /\ calls = 0
    /\ entry_data = _gen_calendar_data_template
    /\ outcome = "none"
    /\ raised = None
    /\ returned = <<>>
    /\ exported = <<>>

\* the key is an attribute of the builder only when holidays are included
Init ==
    /\ \E s \in StartStrings : \E e \in EndStrings(s) : \E include \in BOOLEAN :
         \E api_key \in (IF include THEN {None, "key"} ELSE {None}) :
            Construct(s, e, include, api_key)
    /\ NotCalled

(***************************************************************************)
(* Calendar.generate, step by step.                                        *)
(***************************************************************************)
\* a variant that hands back the table assembled so far with the error
RaiseWithPartialTable(error) ==
    /\ pc' = "idle"
    /\ outcome' = "error"
    /\ raised' = error
    /\ returned' = DataFrame(CALENDAR_DATA)
    /\ exported' = <<>>

\* an exception leaves generate(): nothing is returned, nothing is written
Raise(error) ==
    /\ pc' = "idle"
    /\ outcome' = "error"
    /\ raised' = error
    /\ returned' = <<>>
    /\ exported' = <<>>

\* entry: the reset, then the choice between resolving holidays and the loop
GenerateCall(reset, dest) ==
    /\ pc = "idle"
    /\ calls < MaxCalls
    /\ calls' = calls + 1
    /\ reset_arg' = reset
    /\ dest_arg' = dest
    /\ entry_data' = CALENDAR_DATA
    /\ CALENDAR_DATA' = ResetData(reset, CALENDAR_DATA)
    /\ api_holidays' = <<>>
    /\ requests' = <<>>
    /\ day_num' = 0
    /\ outcome' = "none"
    /\ raised' = None
    /\ returned' = <<>>
    /\ exported' = <<>>
    /\ pc' = IF include_holidays
             THEN (IF Years = <<>> THEN "merge" ELSE "fetch")
             ELSE "rows"
    /\ UNCHANGED <<builder, holidays>>

\* HolidayAPI(self.holiday_api_key) raises: no request is made
GetHolidaysNoKey ==
    /\ pc = "fetch"
    /\ HolidayAPI_raises(holiday_api_key)
    /\ Raise("Exception: You must supply a holiday API key")
    /\ UNCHANGED <<builder, CALENDAR_DATA, holidays, call, api_holidays, day_num, requests>>

\* the year to request next
NextYear == Years[Len(api_holidays) + 1]

\* get_holidays(year, country) answers with the year's holidays
GetHolidaysOk ==
    /\ pc = "fetch"
    /\ ~HolidayAPI_raises(holiday_api_key)
    /\ requests' = Append(requests, NextYear)
    /\ \E response \in ServiceResponses(NextYear) :
         api_holidays' = Append(api_holidays, response)
    /\ pc' = IF Len(api_holidays) + 1 = Len(Years) THEN "merge" ELSE "fetch"
    /\ UNCHANGED <<builder, CALENDAR_DATA, holidays, call, day_num, result>>

\* get_holidays(year, country) raises: an error payload or a failing status
GetHolidaysFails(kind) ==
    /\ pc = "fetch"
    /\ ~HolidayAPI_raises(holiday_api_key)
    /\ requests' = Append(requests, NextYear)
    /\ Raise(kind)
    /\ UNCHANGED <<builder, CALENDAR_DATA, holidays, call, api_holidays, day_num>>

\* the second half of _get_holidays_from_api: self.holidays is rebuilt
MergeHolidays ==
    /\ pc = "merge"
    /\ holidays' = BuildIndex(EmptyDict, api_holidays)
    /\ pc' = "rows"
    /\ UNCHANGED <<builder, CALENDAR_DATA, call, api_holidays, day_num, requests, result>>

\* one iteration of the loop over self._gen_dates()
GenerateRow ==
    /\ pc = "rows"
    /\ day_num \in _gen_dates(num_days)
    /\ CALENDAR_DATA' =
         AppendRow(CALENDAR_DATA, RowOf(include_holidays, holidays, start_date + day_num))
    /\ day_num' = day_num + 1
    /\ UNCHANGED <<builder, holidays, pc, call, api_holidays, requests, result>>

\* after the loop: the table is assembled, then returned or written
GenerateReturn ==
    /\ pc = "rows"
    /\ day_num \notin _gen_dates(num_days)
    /\ IF ~EqualLengths(CALENDAR_DATA)
       THEN Raise("ValueError")
       ELSE /\ pc' = "idle"
            /\ raised' = None
            /\ IF dest_arg = None
               THEN /\ outcome' = "table"
                    /\ returned' = DataFrame(CALENDAR_DATA)
                    /\ exported' = <<>>
               ELSE /\ outcome' = "csv"
                    /\ returned' = <<>>
                    /\ exported' = to_csv(DataFrame(CALENDAR_DATA))
    /\ UNCHANGED <<builder, CALENDAR_DATA, holidays, call, api_holidays, day_num, requests>>

Next ==
    \/ \E reset \in BOOLEAN : \E dest \in {None, "calendar.csv"} : GenerateCall(reset, dest)
    \/ GetHolidaysNoKey
    \/ GetHolidaysOk
    \/ \E kind \in FailureKinds : GetHolidaysFails(kind)
    \/ MergeHolidays
    \/ GenerateRow
    \/ GenerateReturn

Spec == Init /\ [][Next]_vars

(***************************************************************************)
(* SpecMerge: the index construction of _get_holidays_from_api on its own. *)
(* A builder over 2020-12-31 .. 2021-01-02 has had both of its years       *)
(* answered, with any entry lists of at most MaxEntries entries.           *)
(***************************************************************************)
InitMerge ==
    /\ Construct(isoformat(_ymd2ord(2020, 12, 31)), isoformat(_ymd2ord(2021, 1, 2)),
                 TRUE, "key")
    /\ holidays = EmptyDict
    /\ pc = "merge"
    /\ reset_arg = FALSE
    /\ dest_arg = None
    /\ api_holidays \in {<<r1, r2>> : r1 \in RichResponses(2020), r2 \in RichResponses(2021)}
    /\ day_num = 0
    /\ requests = <<2020, 2021>>
    /\ calls = 1
    /\ entry_data = _gen_calendar_data_template
    /\ outcome = "none"
    /\ raised = None
    /\ returned = <<>>
    /\ exported = <<>>

NextMerge == MergeHolidays

SpecMerge == InitMerge /\ [][NextMerge]_vars

(***************************************************************************)
(* Properties.                                                             *)
(***************************************************************************)
\* the entry lists of the answered years, year by year, each in dict order
RECURSIVE EntryListsOf(_)
EntryListsOf(responses) ==
    IF responses = <<>> THEN <<>>
    ELSE [i \in 1..Len(Head(responses)) |-> Head(responses)[i][2]]
            \o EntryListsOf(Tail(responses))

PublicPositions(list) == {j \in 1..Len(list) : list[j].public}
Least(S) == CHOOSE x \in S : \A y \in S : x <= y
Greatest(S) == CHOOSE x \in S : \A y \in S : x >= y
FirstPublic(list) == list[Least(PublicPositions(list))]

\* C4: once self.holidays is rebuilt, its keys are the observed dates of the
\* first public entries of the entry lists that hold a public entry, a list
\* without one giving no key, and each key maps to the name of the first
\* public entry of the last such list (year by year, in the service's order)
\* that is observed on that date.
C4_IndexIsFirstPublicPerList ==
    (pc = "rows" /\ include_holidays) =>
        LET lists == EntryListsOf(api_holidays)
            giving == {i \in 1..Len(lists) : PublicPositions(lists[i]) # {}}
        IN  /\ DOMAIN holidays = {FirstPublic(lists[i]).observed : i \in giving}
            /\ \A key \in DOMAIN holidays :
                 holidays[key] =
                    FirstPublic(lists[Greatest({i \in giving :
                        FirstPublic(lists[i]).observed = key})]).name

\* C4 witness: 2020 answers a public "Other" observed 2021-01-01, 2021 answers
\* the list [non-public, public "New Year's Day" observed 2021-01-01]; the
\* index holds only 2021-01-01 -> "New Year's Day".
C4_Witness ==
    /\ pc = "rows"
    /\ api_holidays =
         <<<< <<NominalDate(2020),
                <<[name |-> "Other", public |-> TRUE,
                   observed |-> isoformat(_ymd2ord(2021, 1, 1))]>> >> >>,
           << <<NominalDate(2021), ScenarioList>> >> >>
    /\ DOMAIN holidays = {isoformat(_ymd2ord(2021, 1, 1))}
    /\ holidays[isoformat(_ymd2ord(2021, 1, 1))] = "New Year's Day"

\* the number of rows of a buffer
Rows(data) == Len(data["date"])
\* row i of a buffer
RowAt(data, i) == [k \in KeySet |-> data[k][i]]
\* the rows the buffer held when the current call began appending
Base == IF reset_arg THEN 0 ELSE Rows(entry_data)
\* the last call returned a table
ReturnedTable == pc = "idle" /\ outcome = "table"
\* the rows of the returned table from position k + 1 on are the days of
\* [start, end), one per day, in order
DaysFrom(table, k) ==
    /\ Len(table) = k + (end_date - start_date)
    /\ \A i \in (k + 1)..Len(table) : strptime(table[i].date) = start_date + (i - k - 1)

\* C1 as stated: the table any generate() call returns, a later call without
\* reset included, has exactly end - start rows, one per day of [start, end),
\* in ascending order.
C1_EveryTableIsTheRange == ReturnedTable => DaysFrom(returned, 0)

\* C1 amended: the table returned by a generate() call made with reset, or
\* entered with an empty row buffer, has exactly end - start rows, one per day
\* of [start, end), in ascending order without gaps or duplicates.
C1_FreshTableIsTheRange ==
    (ReturnedTable /\ (reset_arg \/ Rows(entry_data) = 0)) => DaysFrom(returned, 0)

\* C1 witness: a first call returned a table of three days across the year end.
C1_Witness ==
    /\ ReturnedTable
    /\ calls = 1
    /\ Len(returned) = 3
    /\ returned[1].date = isoformat(_ymd2ord(2020, 12, 31))
    /\ returned[3].date = isoformat(_ymd2ord(2021, 1, 2))

\* C8: a generate(reset=true) that returns a table returns num_days rows, the
\* first of them the start date, whatever the buffer held before the call.
C8_ResetTableHoldsOnlyThisCall ==
    (ReturnedTable /\ reset_arg) =>
        /\ Len(returned) = num_days
        /\ num_days > 0 => returned[1].date = isoformat(start_date)
        /\ Rows(CALENDAR_DATA) = num_days

\* C8 witness: a second call, with reset, on a buffer that held rows.
C8_Witness ==
    /\ ReturnedTable
    /\ reset_arg
    /\ calls = 2
    /\ Rows(entry_data) > 0
    /\ num_days > 0

\* C9: between calls the eleven columns are equally long; a generate(reset=
\* false) that returns a table on a buffer of k rows returns those k rows
\* unchanged and in order, followed by the rows of this call.
C9_RowsAreKept ==
    /\ pc = "idle" => EqualLengths(CALENDAR_DATA)
    /\ pc = "idle" => Cardinality(DOMAIN CALENDAR_DATA) = 11
    /\ (ReturnedTable /\ ~reset_arg) =>
         /\ \A i \in 1..Rows(entry_data) :
              i <= Len(returned) /\ returned[i] = RowAt(entry_data, i)
         /\ DaysFrom(returned, Rows(entry_data))

\* C9 witness: a second call without reset returned the rows of the first
\* call followed by its own.
C9_Witness ==
    /\ ReturnedTable
    /\ ~reset_arg
    /\ calls = 2
    /\ Rows(entry_data) > 1
    /\ Len(returned) = 2 * Rows(entry_data)

\* C10 as stated: in every row of the buffer, year, month and day are the
\* year, month and day of month of the row's date.
C10_YearMonthDayOfDate ==
    \A i \in 1..Rows(CALENDAR_DATA) :
        LET row == RowAt(CALENDAR_DATA, i)
            date == strptime(row.date)
        IN  /\ row.year = YearOf(date)
            /\ row.month = MonthOf(date)
            /\ row.day = DayOf(date)

\* the current call is appending rows, or has ended in a table or an export
Appending == pc = "rows" \/ (pc = "idle" /\ outcome \in {"table", "csv"})
\* the positions of the rows the current call has appended
NewRows == IF Appending THEN (Base + 1)..Rows(CALENDAR_DATA) ELSE {}

\* C2: in every row a call appends, is_business_day is true exactly when
\* is_weekend is false and holidays are disabled or the row's date is not a
\* key of the call's index; and in every row of the buffer and of a returned
\* table, whichever call appended it, is_business_day is false when
\* is_weekend is true, and true exactly when the row is no weekend day and
\* its own is_holiday cell is not true.
C2_BusinessDayIffWeekdayAndNoHoliday ==
    /\ \A i \in NewRows :
         LET row == RowAt(CALENDAR_DATA, i)
         IN  row.is_business_day <=>
                (~row.is_weekend /\ (~include_holidays \/ row.date \notin DOMAIN holidays))
    /\ \A i \in 1..Rows(CALENDAR_DATA) :
         /\ CALENDAR_DATA["is_weekend"][i] => ~CALENDAR_DATA["is_business_day"][i]
         /\ CALENDAR_DATA["is_business_day"][i] <=>
              (~CALENDAR_DATA["is_weekend"][i] /\ CALENDAR_DATA["is_holiday"][i] # Cell(TRUE))
    /\ \A i \in 1..Len(returned) : returned[i].is_weekend => ~returned[i].is_business_day

\* C2 witness: a call has appended a Friday that is a holiday and a Saturday
\* that is a holiday, neither a business day, after a Thursday that is one.
C2_Witness ==
    /\ ReturnedTable
    /\ include_holidays
    /\ DOMAIN holidays = ObservedDates
    /\ \E i \in NewRows :
         /\ i + 1 \in NewRows /\ i - 1 \in NewRows
         /\ RowAt(CALENDAR_DATA, i - 1).weekday = 4
         /\ RowAt(CALENDAR_DATA, i - 1).is_business_day
         /\ RowAt(CALENDAR_DATA, i).weekday = 5
         /\ RowAt(CALENDAR_DATA, i).date \in DOMAIN holidays
         /\ ~RowAt(CALENDAR_DATA, i).is_business_day
         /\ RowAt(CALENDAR_DATA, i + 1).is_weekend
         /\ ~RowAt(CALENDAR_DATA, i + 1).is_business_day

\* C3: in every row a call appends, is_holiday and holiday_name are absent
\* when holidays are disabled; when they are enabled, is_holiday is true and
\* holiday_name the indexed name if the row's date is a key of the call's
\* index, and is_holiday is false and holiday_name absent if it is not.
C3_HolidayCellsFollowTheIndex ==
    \A i \in NewRows :
        LET row == RowAt(CALENDAR_DATA, i)
        IN  IF ~include_holidays
            THEN row.is_holiday = NaN /\ row.holiday_name = NaN
            ELSE IF row.date \in DOMAIN holidays
            THEN row.is_holiday = Cell(TRUE) /\ row.holiday_name = Cell(holidays[row.date])
            ELSE row.is_holiday = Cell(FALSE) /\ row.holiday_name = NaN

\* C3 witness: a call has appended 2021-01-01 as the holiday "New Year's Day"
\* and another row that is no holiday.
C3_Witness ==
    /\ include_holidays
    /\ \E i, j \in NewRows :
         /\ RowAt(CALENDAR_DATA, i).date = isoformat(_ymd2ord(2021, 1, 1))
         /\ RowAt(CALENDAR_DATA, i).is_holiday = Cell(TRUE)
         /\ RowAt(CALENDAR_DATA, i).holiday_name = Cell("New Year's Day")
         /\ RowAt(CALENDAR_DATA, j).is_holiday = Cell(FALSE)
         /\ RowAt(CALENDAR_DATA, j).holiday_name = NaN

\* the last call ended with a failed get_holidays request
FetchFailed == pc = "idle" /\ outcome = "error" /\ raised \in FailureKinds
\* the requests of the call are the first years of the range, each once, in
\* order: the failed request is the last one and was made once
OneRequestPerYearSoFar ==
    \A i \in 1..Len(requests) : requests[i] = YearOf(start_date) + i - 1

\* C5 as stated: after a failed get_holidays call, nothing is returned or
\* written, the request was not repeated, and the buffer is what it was
\* before the call.
C5_FailureLeavesBufferAsEntered ==
    FetchFailed =>
        /\ returned = <<>> /\ exported = <<>>
        /\ OneRequestPerYearSoFar
        /\ CALENDAR_DATA = entry_data

\* C5 amended: after a failed get_holidays call, nothing is returned or
\* written, the request was not repeated, no row of the call is appended, and
\* the buffer is what it was before the call if reset was false and empty if
\* reset was true.
C5_FailureAppendsNothing ==
    FetchFailed =>
        /\ returned = <<>> /\ exported = <<>>
        /\ OneRequestPerYearSoFar
        /\ Len(requests) >= 1 /\ Len(requests) <= YearOf(end_date) - YearOf(start_date) + 1
        /\ CALENDAR_DATA = (IF reset_arg THEN [k \in KeySet |-> <<>>] ELSE entry_data)

\* C5 witness: the second request of a second call failed, on a buffer that
\* held rows, without reset.
C5_Witness ==
    /\ FetchFailed
    /\ calls = 2
    /\ ~reset_arg
    /\ Len(requests) = 2
    /\ Rows(entry_data) > 0
    /\ CALENDAR_DATA = entry_data

C7_OneRequestPerYearBeforeRows ==
    /\ ~include_holidays => requests = <<>>
    /\ (include_holidays /\ (pc \in {"merge", "rows"} \/ (pc = "idle" /\ outcome \in {"table", "csv"}))) =>
         /\ Len(requests) = YearOf(end_date) - YearOf(start_date) + 1
         /\ \A i \in 1..Len(requests) : requests[i] = YearOf(start_date) + i - 1
         /\ Len(api_holidays) = Len(requests)
    /\ (include_holidays /\ pc = "fetch") => Rows(CALENDAR_DATA) = Base
    /\ pc \in {"fetch", "merge"} => day_num = 0

\* C7 witness: a second call on the same builder has requested 2020 and 2021
\* again and returned its table.
C7_Witness ==
    /\ include_holidays
    /\ calls = 2
    /\ pc = "idle" /\ outcome = "table"
    /\ requests = <<2020, 2021>>
    /\ Rows(entry_data) > 0

====
